---- MODULE Spec2Model ----
(***************************************************************************)
(* A model of pyeasee/charger.py: the enum tables, the record types        *)
(* ChargerState, ChargerConfig, ChargerSchedule and ChargerSession, and    *)
(* the Charger facade whose coroutines each suspend at one await on the    *)
(* transport collaborator (easee) or on the circuit collaborator.          *)
(*                                                                         *)
(* A coroutine is modelled in steps: the call up to its await (the action  *)
(* named after the method), the collaborator's answer (easee_respond,      *)
(* circuit_respond), and the rest of the body after the await (wake).      *)
(* Several tasks run these steps interleaved, as an event loop would.      *)
(***************************************************************************)
EXTENDS Integers, Sequences, FiniteSets, TLC

VARIABLES
    chargers,     \* instance -> the attributes Charger.__init__ sets
    pc,           \* task -> "idle" | "awaiting" | "ready" | "done"
    call,         \* task -> the operation invoked, its instance and arguments
    easee_log,    \* task -> the calls the task made on the transport (a spy)
    circuit_log,  \* task -> the calls the task made on the circuit (a spy)
    response,     \* task -> what the collaborator answered to the task's call
    result        \* task -> what the operation returned or raised

vars == <<chargers, pc, call, easee_log, circuit_log, response, result>>

----------------------------------------------------------------------------
(* Python values, tagged by type so that values of different types can be  *)
(* compared and used as keys of one dict.                                  *)

None == [t |-> "none"]
PyInt(i) == [t |-> "int", i |-> i]
PyStr(s) == [t |-> "str", s |-> s]
PyBool(b) == [t |-> "bool", b |-> b]
\* a float, held in tenths: PyFloat(105) is 10.5
PyFloat(n) == [t |-> "float", tenths |-> n]
\* a dict (or a BaseDict subclass, cls) with string keys
PyDict(cls, d) == [t |-> "dict", cls |-> cls, d |-> d]
PyList(l) == [t |-> "list", l |-> l]

\* str(v) / the f-string conversion {v}
str(v) ==
    CASE v.t = "none" -> "None"
      [] v.t = "int" -> ToString(v.i)
      [] v.t = "str" -> v.s
      [] v.t = "bool" -> IF v.b THEN "True" ELSE "False"

\* what a call ends with
Return(v) == [kind |-> "return", value |-> v]
Raise(e) == [kind |-> "raise", exc |-> e]
Exc(type, arg) == [type |-> type, arg |-> arg]
KeyError(k) == Exc("KeyError", k)
TypeError == Exc("TypeError", None)
ValueError == Exc("ValueError", None)
NotFoundException == Exc("NotFoundException", None)

\* d[k] of a dict keyed by Python values
HasKey(d, k) == k \in DOMAIN d
\* d.get(k, default)
Get(d, k, default) == IF k \in DOMAIN d THEN d[k] ELSE default

----------------------------------------------------------------------------
(* The enum tables.                                                        *)

STATUS ==
    PyInt(0) :> "OFFLINE" @@ PyInt(1) :> "DISCONNECTED"
    @@ PyInt(2) :> "AWAITING_START" @@ PyInt(3) :> "CHARGING"
    @@ PyInt(4) :> "COMPLETED" @@ PyInt(5) :> "ERROR"
    @@ PyInt(6) :> "READY_TO_CHARGE"

NODE_TYPE == PyInt(1) :> "Master" @@ PyInt(2) :> "Extender"

PHASE_MODE ==
    PyInt(1) :> "Locked to single phase" @@ PyInt(2) :> "Auto"
    @@ PyInt(3) :> "Locked to three phase"

\* a faulty variant: the table without its None entry
REASON_FOR_NO_CURRENT_without_None ==
    PyInt(0) :> "No reason, charging or ready to charge"
    @@ PyInt(1) :> "Charger paused" @@ PyInt(2) :> "Charger paused"
    @@ PyInt(3) :> "Charger paused" @@ PyInt(4) :> "Charger paused"
    @@ PyInt(5) :> "Charger paused" @@ PyInt(6) :> "Charger paused"
    @@ PyInt(9) :> "Error no current"
    @@ PyInt(50) :> "Secondary unit not requesting current or no car connected"
    @@ PyInt(51) :> "Charger paused" @@ PyInt(52) :> "Charger paused"
    @@ PyInt(53) :> "Charger disabled"
    @@ PyInt(54) :> "Waiting for schedule/auth"
    @@ PyInt(55) :> "Pending auth"

REASON_FOR_NO_CURRENT ==
    None :> "No reason"
    @@ PyInt(0) :> "No reason, charging or ready to charge"
    @@ PyInt(1) :> "Charger paused" @@ PyInt(2) :> "Charger paused"
    @@ PyInt(3) :> "Charger paused" @@ PyInt(4) :> "Charger paused"
    @@ PyInt(5) :> "Charger paused" @@ PyInt(6) :> "Charger paused"
    @@ PyInt(9) :> "Error no current"
    @@ PyInt(50) :> "Secondary unit not requesting current or no car connected"
    @@ PyInt(51) :> "Charger paused" @@ PyInt(52) :> "Charger paused"
    @@ PyInt(53) :> "Charger disabled"
    @@ PyInt(54) :> "Waiting for schedule/auth"
    @@ PyInt(55) :> "Pending auth"

----------------------------------------------------------------------------
(* The record types.  Each constructor yields Return(record) or Raise(e).  *)

\* a faulty variant: STATUS.get(code, code), which lets an unlisted code through
DecodeOpMode_fallback(code) ==
    IF HasKey(STATUS, code) THEN Return(PyStr(STATUS[code])) ELSE Return(code)

\* STATUS[code]: the label, or KeyError(code) for a code STATUS does not list
DecodeOpMode(code) ==
    IF HasKey(STATUS, code) THEN Return(PyStr(STATUS[code]))
    ELSE Raise(KeyError(code))

\* a faulty variant: .get(code) without the default, which yields None
DecodeReason_no_default(code) ==
    PyStr("(" \o str(code) \o ") " \o Get(REASON_FOR_NO_CURRENT, code, "None"))

\* f"({code}) {REASON_FOR_NO_CURRENT.get(code, 'Unknown')}"
DecodeReason(code) ==
    PyStr("(" \o str(code) \o ") " \o Get(REASON_FOR_NO_CURRENT, code, "Unknown"))

\* a faulty variant: "none" if not code else code, which also rewrites 0
RawReason_falsy(code) ==
    IF code \in {None, PyInt(0)} THEN PyStr("none") ELSE code

\* "none" if code is None else code
RawReason(code) == IF code = None THEN PyStr("none") ELSE code

\* ChargerState.__init__: {**state, ...} keeps every key of the payload; the
\* values of the dict display are evaluated in order, so the STATUS lookup
\* comes before the reads of reasonForNoCurrent.
ChargerState(state, raw) ==
    IF ~raw
    THEN IF ~HasKey(state, "chargerOpMode")
         THEN Raise(KeyError(PyStr("chargerOpMode")))
         ELSE IF DecodeOpMode(state["chargerOpMode"]).kind = "raise"
         THEN DecodeOpMode(state["chargerOpMode"])
         ELSE IF ~HasKey(state, "reasonForNoCurrent")
         THEN Raise(KeyError(PyStr("reasonForNoCurrent")))
         ELSE Return(PyDict("ChargerState",
                [k \in DOMAIN state |->
                    CASE k = "chargerOpMode" ->
                           DecodeOpMode(state["chargerOpMode"]).value
                      [] k = "reasonForNoCurrent" ->
                           DecodeReason(state["reasonForNoCurrent"])
                      [] OTHER -> state[k]]))
    ELSE IF ~HasKey(state, "reasonForNoCurrent")
         THEN Raise(KeyError(PyStr("reasonForNoCurrent")))
         ELSE Return(PyDict("ChargerState",
                [k \in DOMAIN state |->
                    IF k = "reasonForNoCurrent" THEN RawReason(state[k])
                    ELSE state[k]]))

\* ChargerConfig.__init__
ChargerConfig(config, raw) ==
    IF ~raw
    THEN IF ~HasKey(config, "localNodeType")
         THEN Raise(KeyError(PyStr("localNodeType")))
         ELSE IF ~HasKey(NODE_TYPE, config["localNodeType"])
         THEN Raise(KeyError(config["localNodeType"]))
         ELSE IF ~HasKey(config, "phaseMode")
         THEN Raise(KeyError(PyStr("phaseMode")))
         ELSE IF ~HasKey(PHASE_MODE, config["phaseMode"])
         THEN Raise(KeyError(config["phaseMode"]))
         ELSE Return(PyDict("ChargerConfig",
                [k \in DOMAIN config |->
                    CASE k = "localNodeType" ->
                           PyStr(NODE_TYPE[config["localNodeType"]])
                      [] k = "phaseMode" ->
                           PyStr(PHASE_MODE[config["phaseMode"]])
                      [] OTHER -> config[k]]))
    ELSE Return(PyDict("ChargerConfig", config))

\* ChargerSchedule.__init__: a projection through dict.get, which never fails
ChargerSchedule(schedule) ==
    Return(PyDict("ChargerSchedule",
        [id |-> Get(schedule, "id", None),
         chargeStartTime |-> Get(schedule, "chargeStartTime", None),
         chargeStopTime |-> Get(schedule, "chargeStopTime", None),
         repeat |-> Get(schedule, "repeat", None)]))

\* float(s) of a string: the decimal texts the model's responses carry
FloatOfStr(s) ==
    CASE s = "10" -> Return(PyFloat(100))
      [] s = "10.5" -> Return(PyFloat(105))
      [] s = "0.0" -> Return(PyFloat(0))
      [] OTHER -> Raise(ValueError)

\* float(v)
float(v) ==
    CASE v.t = "int" -> Return(PyFloat(10 * v.i))
      [] v.t = "float" -> Return(v)
      [] v.t = "bool" -> Return(PyFloat(IF v.b THEN 10 ELSE 0))
      [] v.t = "str" -> FloatOfStr(v.s)
      [] OTHER -> Raise(TypeError)

\* ChargerSession.__init__
ChargerSession(session) ==
    LET kwh == float(Get(session, "kiloWattHours", None))
    IN  IF kwh.kind = "raise"
        THEN kwh
        ELSE Return(PyDict("ChargerSession",
                [carConnected |-> Get(session, "carConnected", None),
                 carDisconnected |-> Get(session, "carDisconnected", None),
                 kiloWattHours |-> kwh.value]))

----------------------------------------------------------------------------
(* list.sort(key=..., reverse=...) on the carConnected keys.  The keys are *)
(* timestamps, modelled as integers, or None; a < between two keys raises  *)
(* TypeError unless both are timestamps.                                   *)

Reverse(s) == [i \in 1..Len(s) |-> s[Len(s) + 1 - i]]

SortKey(x) == x.d["carConnected"]

\* whether a < b, the only comparison list.sort makes
Less(a, b) == a.i < b.i

\* x put into the ascending list s behind every element not greater than it
RECURSIVE Insert(_, _)
Insert(s, x) ==
    IF s = <<>> THEN <<x>>
    ELSE IF Less(SortKey(x), SortKey(Head(s)))
         THEN <<x>> \o s
         ELSE <<Head(s)>> \o Insert(Tail(s), x)

\* a stable ascending sort: the elements of rest inserted one by one
RECURSIVE SortInto(_, _)
SortInto(sorted, rest) ==
    IF rest = <<>> THEN sorted
    ELSE SortInto(Insert(sorted, Head(rest)), Tail(rest))

\* a faulty variant: sorted ascending and then reversed, which turns the
\* order of equal keys around
list_sort_reversed_after(s, reverse) ==
    IF Len(s) >= 2 /\ \E i \in 1..Len(s) : SortKey(s[i]).t # "int"
    THEN Raise(TypeError)
    ELSE IF reverse
         THEN Return(Reverse(SortInto(<<>>, s)))
         ELSE Return(SortInto(<<>>, s))

\* list.sort: with reverse the list is reversed, sorted ascending and stable,
\* and reversed again, which keeps equal keys in their original order.  With
\* two elements or more every element is compared with another one.
list_sort(s, reverse) ==
    IF Len(s) >= 2 /\ \E i \in 1..Len(s) : SortKey(s[i]).t # "int"
    THEN Raise(TypeError)
    ELSE IF reverse
         THEN Return(Reverse(SortInto(<<>>, Reverse(s))))
         ELSE Return(SortInto(<<>>, s))

\* [ChargerSession(session) for session in sessions]: the first constructor
\* that raises ends the comprehension
RECURSIVE SessionList(_)
SessionList(sessions) ==
    IF sessions = <<>> THEN Return(<<>>)
    ELSE LET first == ChargerSession(Head(sessions))
         IN  IF first.kind = "raise" THEN first
             ELSE LET others == SessionList(Tail(sessions))
                  IN  IF others.kind = "raise" THEN others
                      ELSE Return(<<first.value>> \o others.value)

----------------------------------------------------------------------------
(* The Charger facade.                                                     *)

Instances == {"c1", "c2"}
Tasks == {"t1", "t2"}
\* the one task of the runs that study a single operation
Solo == {"t1"}

\* the circuit collaborator a Charger may be constructed with
Circuit == [t |-> "circuit"]
Easee == [t |-> "easee"]

\* Charger.__init__: the attributes set from the entries and the arguments
Charger(entries, easee, site, circuit) ==
    [id |-> entries["id"], name |-> entries["name"],
     site |-> site, circuit |-> circuit, easee |-> easee]

\* the two instances of the model: one constructed without a circuit, one
\* with a circuit
Constructed ==
    "c1" :> Charger([id |-> "EH12345", name |-> "Garage"], Easee, None, None)
    @@ "c2" :> Charger([id |-> "EH67890", name |-> "Street"], Easee, None, Circuit)

\* datetime.isoformat() of the n-th day of January 2021, at midnight
isoformat(n) ==
    "2021-01-" \o (IF n < 10 THEN "0" ELSE "") \o ToString(n) \o "T00:00:00"

\* f"/api/chargers/{self.id}<rest>"
ChargerPath(c, rest) == "/api/chargers/" \o chargers[c].id \o rest

\* f"/api/sessions/charger/{self.id}/<what>/{from_date.isoformat()}/{to_date.isoformat()}"
SessionsPath(c, what, from_date, to_date) ==
    "/api/sessions/charger/" \o chargers[c].id \o "/" \o what \o "/"
    \o isoformat(from_date) \o "/" \o isoformat(to_date)

\* a keyword argument that is not passed
Absent == [t |-> "absent"]

\* a faulty variant: the request is sent twice
EaseeCall_twice(t, c, op, args, method, path, json) ==
    /\ pc[t] = "idle"
    /\ pc' = [pc EXCEPT ![t] = "awaiting"]
    /\ call' = [call EXCEPT ![t] = [op |-> op, charger |-> c, args |-> args]]
    /\ easee_log' = [easee_log EXCEPT ![t] =
            @ \o << [method |-> method, path |-> path, json |-> json],
                    [method |-> method, path |-> path, json |-> json] >>]
    /\ UNCHANGED <<chargers, circuit_log, response, result>>

\* the call up to "await self.easee.<method>(path, json=json)": the request
\* is handed to the transport and the task suspends
EaseeCall(t, c, op, args, method, path, json) ==
    /\ pc[t] = "idle"
    /\ pc' = [pc EXCEPT ![t] = "awaiting"]
    /\ call' = [call EXCEPT ![t] = [op |-> op, charger |-> c, args |-> args]]
    /\ easee_log' = [easee_log EXCEPT ![t] =
            Append(@, [method |-> method, path |-> path, json |-> json])]
    /\ UNCHANGED <<chargers, circuit_log, response, result>>

\* the call up to "await self.circuit.<method>(p1, p2, p3)"
CircuitCall(t, c, op, args, method) ==
    /\ pc[t] = "idle"
    /\ pc' = [pc EXCEPT ![t] = "awaiting"]
    /\ call' = [call EXCEPT ![t] = [op |-> op, charger |-> c, args |-> args]]
    /\ circuit_log' = [circuit_log EXCEPT ![t] =
            Append(@, [method |-> method,
                       args |-> <<args.currentP1, args.currentP2, args.currentP3>>])]
    /\ UNCHANGED <<chargers, easee_log, response, result>>

\* a call that ends without awaiting anything
Finish(t, c, op, args, outcome) ==
    /\ pc[t] = "idle"
    /\ pc' = [pc EXCEPT ![t] = "done"]
    /\ call' = [call EXCEPT ![t] = [op |-> op, charger |-> c, args |-> args]]
    /\ result' = [result EXCEPT ![t] = outcome]
    /\ UNCHANGED <<chargers, easee_log, circuit_log, response>>

NoArgs == [none |-> TRUE]

get_consumption_between_dates(t, c, from_date, to_date) ==
    EaseeCall(t, c, "get_consumption_between_dates",
              [from_date |-> from_date, to_date |-> to_date],
              "get", SessionsPath(c, "total", from_date, to_date), Absent)

get_sessions_between_dates(t, c, from_date, to_date) ==
    EaseeCall(t, c, "get_sessions_between_dates",
              [from_date |-> from_date, to_date |-> to_date],
              "get", SessionsPath(c, "sessions", from_date, to_date), Absent)

get_config(t, c, raw) ==
    EaseeCall(t, c, "get_config", [raw |-> raw],
              "get", ChargerPath(c, "/config"), Absent)

get_state(t, c, raw) ==
    EaseeCall(t, c, "get_state", [raw |-> raw],
              "get", ChargerPath(c, "/state"), Absent)

start(t, c) ==
    EaseeCall(t, c, "start", NoArgs,
              "post", ChargerPath(c, "/commands/start_charging"), Absent)

pause(t, c) ==
    EaseeCall(t, c, "pause", NoArgs,
              "post", ChargerPath(c, "/commands/pause_charging"), Absent)

resume(t, c) ==
    EaseeCall(t, c, "resume", NoArgs,
              "post", ChargerPath(c, "/commands/resume_charging"), Absent)

stop(t, c) ==
    EaseeCall(t, c, "stop", NoArgs,
              "post", ChargerPath(c, "/commands/stop_charging"), Absent)

toggle(t, c) ==
    EaseeCall(t, c, "toggle", NoArgs,
              "post", ChargerPath(c, "/commands/toggle_charging"), Absent)

get_basic_charge_plan(t, c) ==
    EaseeCall(t, c, "get_basic_charge_plan", NoArgs,
              "get", ChargerPath(c, "/basic_charge_plan"), Absent)

set_basic_charge_plan(t, c, id, chargeStartTime, chargeStopTime, repeat) ==
    EaseeCall(t, c, "set_basic_charge_plan",
              [id |-> id, chargeStartTime |-> chargeStartTime,
               chargeStopTime |-> chargeStopTime, repeat |-> repeat],
              "post", ChargerPath(c, "/basic_charge_plan"),
              PyDict("dict",
                  [id |-> id,
                   chargeStartTime |-> PyStr(str(chargeStartTime)),
                   chargeStopTime |-> PyStr(str(chargeStopTime)),
                   repeat |-> repeat]))

enable_charger(t, c, enable) ==
    EaseeCall(t, c, "enable_charger", [enable |-> enable],
              "post", ChargerPath(c, "/settings"),
              PyDict("dict", [enabled |-> enable]))

enable_idle_current(t, c, enable) ==
    EaseeCall(t, c, "enable_idle_current", [enable |-> enable],
              "post", ChargerPath(c, "/settings"),
              PyDict("dict", [enableIdleCurrent |-> enable]))

limitToSinglePhaseCharging(t, c, enable) ==
    EaseeCall(t, c, "limitToSinglePhaseCharging", [enable |-> enable],
              "post", ChargerPath(c, "/settings"),
              PyDict("dict", [limitToSinglePhaseCharging |-> enable]))

phaseMode(t, c, mode) ==
    EaseeCall(t, c, "phaseMode", [mode |-> mode],
              "post", ChargerPath(c, "/settings"),
              PyDict("dict", [phaseMode |-> mode]))

lockCablePermanently(t, c, enable) ==
    EaseeCall(t, c, "lockCablePermanently", [enable |-> enable],
              "post", ChargerPath(c, "/settings"),
              PyDict("dict", [lockCablePermanently |-> enable]))

smartButtonEnabled(t, c, enable) ==
    EaseeCall(t, c, "smartButtonEnabled", [enable |-> enable],
              "post", ChargerPath(c, "/settings"),
              PyDict("dict", [smartButtonEnabled |-> enable]))

delete_basic_charge_plan(t, c) ==
    EaseeCall(t, c, "delete_basic_charge_plan", NoArgs,
              "delete", ChargerPath(c, "/basic_charge_plan"), Absent)

override_schedule(t, c) ==
    EaseeCall(t, c, "override_schedule", NoArgs,
              "post", ChargerPath(c, "/commands/override_schedule"), Absent)

smart_charging(t, c, enable) ==
    EaseeCall(t, c, "smart_charging", [enable |-> enable],
              "post", ChargerPath(c, "/settings"),
              PyDict("dict", [smartCharging |-> enable]))

reboot(t, c) ==
    EaseeCall(t, c, "reboot", NoArgs,
              "post", ChargerPath(c, "/commands/reboot"), Absent)

update_firmware(t, c) ==
    EaseeCall(t, c, "update_firmware", NoArgs,
              "post", ChargerPath(c, "/commands/update_firmware"), Absent)

CurrentArgs(currentP1, currentP2, currentP3) ==
    [currentP1 |-> currentP1, currentP2 |-> currentP2, currentP3 |-> currentP3]

\* without a circuit the body only logs and falls off its end: it returns None
set_dynamic_charger_circuit_current(t, c, currentP1, currentP2, currentP3) ==
    IF chargers[c].circuit # None
    THEN CircuitCall(t, c, "set_dynamic_charger_circuit_current",
                     CurrentArgs(currentP1, currentP2, currentP3),
                     "set_dynamic_current")
    ELSE Finish(t, c, "set_dynamic_charger_circuit_current",
                CurrentArgs(currentP1, currentP2, currentP3), Return(None))

\* a faulty variant: the body of set_dynamic_charger_circuit_current copied
\* without renaming the circuit's method
set_max_charger_circuit_current_copied(t, c, currentP1, currentP2, currentP3) ==
    IF chargers[c].circuit # None
    THEN CircuitCall(t, c, "set_max_charger_circuit_current",
                     CurrentArgs(currentP1, currentP2, currentP3),
                     "set_dynamic_current")
    ELSE Finish(t, c, "set_max_charger_circuit_current",
                CurrentArgs(currentP1, currentP2, currentP3), Return(None))

set_max_charger_circuit_current(t, c, currentP1, currentP2, currentP3) ==
    IF chargers[c].circuit # None
    THEN CircuitCall(t, c, "set_max_charger_circuit_current",
                     CurrentArgs(currentP1, currentP2, currentP3),
                     "set_max_current")
    ELSE Finish(t, c, "set_max_charger_circuit_current",
                CurrentArgs(currentP1, currentP2, currentP3), Return(None))

set_max_offline_charger_circuit_current(t, c, currentP1, currentP2, currentP3) ==
    IF chargers[c].circuit # None
    THEN CircuitCall(t, c, "set_max_offline_charger_circuit_current",
                     CurrentArgs(currentP1, currentP2, currentP3),
                     "set_max_offline_current")
    ELSE Finish(t, c, "set_max_offline_charger_circuit_current",
                CurrentArgs(currentP1, currentP2, currentP3), Return(None))

set_dynamic_charger_current(t, c, current) ==
    EaseeCall(t, c, "set_dynamic_charger_current", [current |-> current],
              "post", ChargerPath(c, "/settings"),
              PyDict("dict", [dynamicChargerCurrent |-> current]))

set_max_charger_current(t, c, current) ==
    EaseeCall(t, c, "set_max_charger_current", [current |-> current],
              "post", ChargerPath(c, "/settings"),
              PyDict("dict", [maxChargerCurrent |-> current]))

\* a faulty variant: "whitelist" given the code of "easee_account_required"
AccessCodes_mistyped ==
    PyInt(1) :> 1 @@ PyInt(2) :> 2 @@ PyInt(3) :> 3
    @@ PyStr("open_for_all") :> 1 @@ PyStr("easee_account_required") :> 2
    @@ PyStr("whitelist") :> 2

\* the dict of set_access, named json in the source.  The access values drawn
\* are ints and strs, as the annotation Union[int, str] has it.
AccessCodes ==
    PyInt(1) :> 1 @@ PyInt(2) :> 2 @@ PyInt(3) :> 3
    @@ PyStr("open_for_all") :> 1 @@ PyStr("easee_account_required") :> 2
    @@ PyStr("whitelist") :> 3

\* json[access] is evaluated before self.easee.put is called: a KeyError
\* leaves the transport untouched
set_access(t, c, access) ==
    IF HasKey(AccessCodes, access)
    THEN EaseeCall(t, c, "set_access", [access |-> access],
                   "put", ChargerPath(c, "/access"), PyInt(AccessCodes[access]))
    ELSE Finish(t, c, "set_access", [access |-> access], Raise(KeyError(access)))

delete_access(t, c) ==
    EaseeCall(t, c, "delete_access", NoArgs,
              "delete", ChargerPath(c, "/access"), Absent)

----------------------------------------------------------------------------
(* The collaborators' answers and the rest of each coroutine.              *)

\* what an awaited call yields: a response object, or an exception raised
\* into the awaiting coroutine
Response(url, body) == [ok |-> TRUE, url |-> url, body |-> body]
Failure(e) == [ok |-> FALSE, exc |-> e]

\* the transport answers the request the task is suspended on.  For a GET the
\* answer stands for both awaits, of the request and of the body read by
\* .json() or .text(): nothing of the Charger is touched in between, and a
\* failure of either reaches the coroutine at the same place.
easee_respond(t, r) ==
    /\ pc[t] = "awaiting"
    /\ easee_log[t] # <<>>
    /\ response' = [response EXCEPT ![t] = r]
    /\ pc' = [pc EXCEPT ![t] = "ready"]
    /\ UNCHANGED <<chargers, call, easee_log, circuit_log, result>>

\* the circuit answers the call the task is suspended on
circuit_respond(t, r) ==
    /\ pc[t] = "awaiting"
    /\ circuit_log[t] # <<>>
    /\ response' = [response EXCEPT ![t] = r]
    /\ pc' = [pc EXCEPT ![t] = "ready"]
    /\ UNCHANGED <<chargers, call, easee_log, circuit_log, result>>

\* "return await self.easee.post(...)" and the like: the awaited value is
\* returned as it is, an exception passes through
passthrough_return(r) ==
    IF r.ok THEN Return(r) ELSE Raise(r.exc)

\* float(await response.text())
get_consumption_between_dates_return(r) ==
    IF r.ok THEN float(r.body) ELSE Raise(r.exc)

\* the sessions of await response.json(), wrapped and sorted
get_sessions_between_dates_return(r) ==
    IF ~r.ok THEN Raise(r.exc)
    ELSE LET sessions == SessionList(r.body.l)
         IN  IF sessions.kind = "raise" THEN sessions
             ELSE LET sorted == list_sort(sessions.value, TRUE)
                  IN  IF sorted.kind = "raise" THEN sorted
                      ELSE Return(PyList(sorted.value))

get_config_return(r, raw) ==
    IF r.ok THEN ChargerConfig(r.body.d, raw) ELSE Raise(r.exc)

get_state_return(r, raw) ==
    IF r.ok THEN ChargerState(r.body.d, raw) ELSE Raise(r.exc)

\* a faulty variant: "except Exception" in place of "except NotFoundException"
get_basic_charge_plan_return_catch_all(r) ==
    IF r.ok THEN ChargerSchedule(r.body.d) ELSE Return(None)

\* the try block: NotFoundException alone is caught and turned into None
get_basic_charge_plan_return(r) ==
    IF r.ok THEN ChargerSchedule(r.body.d)
    ELSE IF r.exc = NotFoundException THEN Return(None)
    ELSE Raise(r.exc)

\* the rest of the coroutine cl after its await yielded r
AfterAwait(cl, r) ==
    CASE cl.op = "get_consumption_between_dates" ->
            get_consumption_between_dates_return(r)
      [] cl.op = "get_sessions_between_dates" ->
            get_sessions_between_dates_return(r)
      [] cl.op = "get_config" -> get_config_return(r, cl.args.raw)
      [] cl.op = "get_state" -> get_state_return(r, cl.args.raw)
      [] cl.op = "get_basic_charge_plan" -> get_basic_charge_plan_return(r)
      [] OTHER -> passthrough_return(r)

\* a faulty variant: the answers are kept in one slot shared by all calls
Awaited_shared(t) == response[CHOOSE u \in DOMAIN response : response[u] # None]

\* the value the task's await yields: the answer to its own call
Awaited(t) == response[t]

\* the task runs on from its await to its return or raise
wake(t) ==
    /\ pc[t] = "ready"
    /\ result' = [result EXCEPT ![t] = AfterAwait(call[t], Awaited(t))]
    /\ pc' = [pc EXCEPT ![t] = "done"]
    /\ UNCHANGED <<chargers, call, easee_log, circuit_log, response>>

----------------------------------------------------------------------------
(* Bounds and the inputs drawn within them.                                *)

MaxDay == 2
MaxCode == 56
MaxTime == 2
MaxSessions == 3

Days == 1..MaxDay
Bools == {PyBool(TRUE), PyBool(FALSE)}
Amps == {PyInt(16)}
OptionalAmps == {None, PyInt(6)}
Modes == {PyInt(2), PyInt(4)}
AccessValues ==
    {PyInt(i) : i \in 0..4}
    \cup {PyStr(s) : s \in {"open_for_all", "easee_account_required",
                            "whitelist", "admin", "3"}}

\* the failures the transport signals
Failures == {NotFoundException, Exc("ServerFailureException", None)}

\* the codes a payload may carry, listed or not, and null
Codes == {None} \cup {PyInt(i) : i \in (0 - 1)..MaxCode}

\* dicts with the keys of some subset of keys \cup {extra}: every key of
\* keys, when present, holds a code; extra, when present, holds True
Payloads(keys, extra) ==
    UNION {
      {f @@ g : f \in [K -> Codes], g \in [X -> {PyBool(TRUE)}]}
        : <<K, X>> \in (SUBSET keys) \X (SUBSET {extra}) }

StatePayloads == Payloads({"chargerOpMode", "reasonForNoCurrent"}, "cableLocked")
ConfigPayloads == Payloads({"localNodeType", "phaseMode"}, "maxChargerCurrent")

\* sessions as the server lists them: carConnected a timestamp or null,
\* kiloWattHours a number or missing
Sessions ==
    { [id |-> PyInt(7), carConnected |-> cc, carDisconnected |-> cd] @@ kwh :
        cc \in {None} \cup {PyInt(i) : i \in 1..MaxTime},
        cd \in {None, PyInt(9)},
        kwh \in {<<>>, [kiloWattHours |-> PyInt(10)]} }

SessionLists == UNION {[1..n -> Sessions] : n \in 0..MaxSessions}

\* the url of the request the task is suspended on
Url(t) == easee_log[t][Len(easee_log[t])].path

\* a few bodies per operation, for the runs that interleave all operations
SomeBodies(op) ==
    CASE op = "get_consumption_between_dates" -> {PyStr("10.5"), PyStr("n/a")}
      [] op = "get_sessions_between_dates" ->
            {PyList(<<>>),
             PyList(<<[carConnected |-> PyInt(1), carDisconnected |-> PyInt(2),
                       kiloWattHours |-> PyStr("10.5")],
                      [carConnected |-> PyInt(3), carDisconnected |-> None,
                       kiloWattHours |-> PyInt(10)]>>)}
      [] op = "get_config" ->
            {PyDict("dict", [localNodeType |-> PyInt(1), phaseMode |-> PyInt(2)]),
             PyDict("dict", [localNodeType |-> PyInt(3), phaseMode |-> PyInt(2)])}
      [] op = "get_state" ->
            {PyDict("dict", [chargerOpMode |-> PyInt(3),
                             reasonForNoCurrent |-> PyInt(0)]),
             PyDict("dict", [chargerOpMode |-> PyInt(7),
                             reasonForNoCurrent |-> None])}
      [] op = "get_basic_charge_plan" ->
            {PyDict("dict", [id |-> PyInt(1), chargeStartTime |-> PyStr("22:00"),
                             chargeStopTime |-> PyStr("06:00"),
                             repeat |-> PyBool(TRUE), isEnabled |-> PyBool(TRUE)])}
      [] OTHER -> {None}

\* every body of the operation's domain, for the runs of one operation
AllBodies(op) ==
    CASE op = "get_sessions_between_dates" -> {PyList(l) : l \in SessionLists}
      [] op = "get_config" -> {PyDict("dict", d) : d \in ConfigPayloads}
      [] op = "get_state" -> {PyDict("dict", d) : d \in StatePayloads}
      [] OTHER -> SomeBodies(op)

\* the answers the transport may give the task: none unless it is suspended
\* on a request; all == TRUE draws the bodies from the operation's whole domain
Answers(t, all) ==
    IF pc[t] = "awaiting" /\ easee_log[t] # <<>>
    THEN {Failure(e) : e \in Failures}
         \cup {Response(Url(t), b) :
                b \in IF all THEN AllBodies(call[t].op) ELSE SomeBodies(call[t].op)}
    ELSE {}

CircuitAnswers ==
    {Failure(e) : e \in Failures} \cup {Response("circuit", None)}

----------------------------------------------------------------------------
(* The specifications.                                                     *)

\* the instances are constructed and the tasks in tasks have called nothing
InitWith(tasks) ==
    /\ chargers = Constructed
    /\ pc = [t \in tasks |-> "idle"]
    /\ call = [t \in tasks |-> None]
    /\ easee_log = [t \in tasks |-> <<>>]
    /\ circuit_log = [t \in tasks |-> <<>>]
    /\ response = [t \in tasks |-> None]
    /\ result = [t \in tasks |-> None]

Init == InitWith(Tasks)

\* every operation of the facade, from tasks that interleave
Next ==
    \E t \in Tasks :
        \/ \E c \in Instances, d2 \in Days :
                get_consumption_between_dates(t, c, 1, d2)
        \/ \E c \in Instances, d2 \in Days :
                get_sessions_between_dates(t, c, 1, d2)
        \/ \E c \in Instances, raw \in BOOLEAN : get_config(t, c, raw)
        \/ \E c \in Instances, raw \in BOOLEAN : get_state(t, c, raw)
        \/ \E c \in Instances : start(t, c)
        \/ \E c \in Instances : pause(t, c)
        \/ \E c \in Instances : resume(t, c)
        \/ \E c \in Instances : stop(t, c)
        \/ \E c \in Instances : toggle(t, c)
        \/ \E c \in Instances : get_basic_charge_plan(t, c)
        \/ \E c \in Instances, repeat \in Bools :
                set_basic_charge_plan(t, c, PyInt(1), PyStr("22:00"), PyInt(6), repeat)
        \/ \E c \in Instances, enable \in Bools : enable_charger(t, c, enable)
        \/ \E c \in Instances, enable \in Bools : enable_idle_current(t, c, enable)
        \/ \E c \in Instances, enable \in Bools :
                limitToSinglePhaseCharging(t, c, enable)
        \/ \E c \in Instances, mode \in Modes : phaseMode(t, c, mode)
        \/ \E c \in Instances, enable \in Bools : lockCablePermanently(t, c, enable)
        \/ \E c \in Instances, enable \in Bools : smartButtonEnabled(t, c, enable)
        \/ \E c \in Instances : delete_basic_charge_plan(t, c)
        \/ \E c \in Instances : override_schedule(t, c)
        \/ \E c \in Instances, enable \in Bools : smart_charging(t, c, enable)
        \/ \E c \in Instances : reboot(t, c)
        \/ \E c \in Instances : update_firmware(t, c)
        \/ \E c \in Instances, p1 \in Amps, p2 \in OptionalAmps, p3 \in OptionalAmps :
                set_dynamic_charger_circuit_current(t, c, p1, p2, p3)
        \/ \E c \in Instances, p1 \in Amps, p2 \in OptionalAmps, p3 \in OptionalAmps :
                set_max_charger_circuit_current(t, c, p1, p2, p3)
        \/ \E c \in Instances, p1 \in Amps, p2 \in OptionalAmps, p3 \in OptionalAmps :
                set_max_offline_charger_circuit_current(t, c, p1, p2, p3)
        \/ \E c \in Instances, current \in Amps :
                set_dynamic_charger_current(t, c, current)
        \/ \E c \in Instances, current \in Amps : set_max_charger_current(t, c, current)
        \/ \E c \in Instances, access \in AccessValues : set_access(t, c, access)
        \/ \E c \in Instances : delete_access(t, c)
        \/ \E r \in Answers(t, FALSE) : easee_respond(t, r)
        \/ \E r \in CircuitAnswers : circuit_respond(t, r)
        \/ wake(t)

Spec == Init /\ [][Next]_vars

\* get_state and get_config alone, over every payload within the bounds
InitState == InitWith(Solo)

NextState ==
    \E t \in Solo :
        \/ \E c \in Instances, raw \in BOOLEAN : get_config(t, c, raw)
        \/ \E c \in Instances, raw \in BOOLEAN : get_state(t, c, raw)
        \/ \E r \in Answers(t, TRUE) : easee_respond(t, r)
        \/ wake(t)

SpecState == InitState /\ [][NextState]_vars

\* get_sessions_between_dates alone, over every session list within the bounds
InitSessions == InitWith(Solo)

NextSessions ==
    \E t \in Solo :
        \/ \E c \in Instances : get_sessions_between_dates(t, c, 1, MaxDay)
        \/ \E r \in Answers(t, TRUE) : easee_respond(t, r)
        \/ wake(t)

SpecSessions == InitSessions /\ [][NextSessions]_vars

----------------------------------------------------------------------------
(* Properties of the facade, under Spec.                                   *)

Called(t) == call[t] # None
Done(t) == pc[t] = "done"
\* the task's await ended with a failure signalled by the collaborator
AwaitFailed(t) == Done(t) /\ response[t] # None /\ ~response[t].ok
AwaitSucceeded(t) == Done(t) /\ response[t] # None /\ response[t].ok

\* C1: whatever the operation and whatever failure its await ends with, the
\* call returns None without raising exactly when the operation is
\* get_basic_charge_plan and the failure is not-found; in every other case
\* the same failure is raised to the caller and nothing is returned.
C1_OnlyPlanReadSwallowsNotFound ==
    \A t \in DOMAIN pc :
        AwaitFailed(t) =>
            LET f == response[t].exc
                swallowed == call[t].op = "get_basic_charge_plan"
                             /\ f = NotFoundException
            IN  /\ (result[t] = Return(None)) <=> swallowed
                /\ ~swallowed => result[t] = Raise(f)
                /\ (result[t].kind = "return") <=> swallowed

C1_Witness ==
    \E t, u \in DOMAIN pc :
        /\ AwaitFailed(t) /\ call[t].op = "get_basic_charge_plan"
        /\ response[t].exc = NotFoundException /\ result[t] = Return(None)
        /\ AwaitFailed(u) /\ call[u].op = "delete_basic_charge_plan"
        /\ response[u].exc = NotFoundException
        /\ result[u] = Raise(NotFoundException)

\* the integer code the access levels stand for
AccessLevel(access) ==
    CASE access \in {PyInt(1), PyStr("open_for_all")} -> 1
      [] access \in {PyInt(2), PyStr("easee_account_required")} -> 2
      [] access \in {PyInt(3), PyStr("whitelist")} -> 3
      [] OTHER -> 0

\* C2: set_access sends the code of the access level, the same for a name
\* and for its number, in one PUT to chargers/{id}/access; for any other
\* access value it raises a KeyError with nothing sent to the transport.
C2_SetAccess ==
    \A t \in DOMAIN pc :
        (Called(t) /\ call[t].op = "set_access") =>
            LET access == call[t].args.access
            IN  IF AccessLevel(access) # 0
                THEN easee_log[t] =
                        << [method |-> "put",
                            path |-> "/api/chargers/"
                                     \o Constructed[call[t].charger].id \o "/access",
                            json |-> PyInt(AccessLevel(access))] >>
                ELSE /\ Done(t)
                     /\ result[t] = Raise(KeyError(access))
                     /\ easee_log[t] = <<>>
                     /\ circuit_log[t] = <<>>

C2_Witness ==
    \E t, u \in DOMAIN pc :
        /\ Called(t) /\ call[t].op = "set_access"
        /\ call[t].args.access = PyStr("whitelist")
        /\ Len(easee_log[t]) = 1 /\ easee_log[t][1].json = PyInt(3)
        /\ Called(u) /\ call[u].op = "set_access"
        /\ call[u].args.access = PyStr("admin")
        /\ result[u] = Raise(KeyError(PyStr("admin"))) /\ easee_log[u] = <<>>

CircuitOps ==
    {"set_dynamic_charger_circuit_current", "set_max_charger_circuit_current",
     "set_max_offline_charger_circuit_current"}

\* the method of the circuit each delegating operation stands for
CircuitMethod(op) ==
    CASE op = "set_dynamic_charger_circuit_current" -> "set_dynamic_current"
      [] op = "set_max_charger_circuit_current" -> "set_max_current"
      [] op = "set_max_offline_charger_circuit_current" -> "set_max_offline_current"

\* C3: on a Charger without a circuit the three delegating operations call
\* nothing, raise nothing and return None; on a Charger with a circuit each
\* makes exactly one call, of the circuit's corresponding method with the
\* same three arguments, and ends as that call ends.
C3_CircuitDelegation ==
    \A t \in DOMAIN pc :
        (Called(t) /\ call[t].op \in CircuitOps) =>
            /\ easee_log[t] = <<>>
            /\ IF Constructed[call[t].charger].circuit = None
               THEN /\ circuit_log[t] = <<>>
                    /\ Done(t)
                    /\ result[t] = Return(None)
               ELSE /\ circuit_log[t] =
                        << [method |-> CircuitMethod(call[t].op),
                            args |-> <<call[t].args.currentP1,
                                       call[t].args.currentP2,
                                       call[t].args.currentP3>>] >>
                    /\ AwaitSucceeded(t) => result[t] = Return(response[t])
                    /\ AwaitFailed(t) => result[t] = Raise(response[t].exc)
                    /\ Done(t) => response[t] # None

C3_Witness ==
    \E t, u \in DOMAIN pc :
        /\ Done(t) /\ call[t].op = "set_max_charger_circuit_current"
        /\ Constructed[call[t].charger].circuit = None
        /\ result[t] = Return(None)
        /\ AwaitSucceeded(u) /\ call[u].op = "set_max_charger_circuit_current"
        /\ circuit_log[u][1].args = <<PyInt(16), PyInt(6), None>>
        /\ result[u] = Return(response[u])

\* C9 as stated: every invocation issues exactly one call on the transport.
C9_ExactlyOneTransportCall ==
    \A t \in DOMAIN pc : Done(t) => Len(easee_log[t]) = 1

\* C9, amended: every invocation issues exactly one call on the transport,
\* except the three delegating operations, which issue none on the transport
\* (one on the circuit when the Charger has one, none otherwise), and
\* set_access with an unmapped value, which issues none.  This holds from the
\* call on, whether the call succeeds or fails: nothing is sent again, and a
\* finished invocation has no call left unanswered.
C9_AtMostOneCall ==
    \A t \in DOMAIN pc :
        Called(t) =>
            LET sent == Len(easee_log[t])
                delegated == Len(circuit_log[t])
            IN  /\ IF call[t].op \in CircuitOps
                   THEN /\ sent = 0
                        /\ delegated =
                             IF Constructed[call[t].charger].circuit = None
                             THEN 0 ELSE 1
                   ELSE IF call[t].op = "set_access"
                           /\ AccessLevel(call[t].args.access) = 0
                   THEN sent = 0 /\ delegated = 0
                   ELSE sent = 1 /\ delegated = 0
                /\ Done(t) => (sent + delegated = 1 <=> response[t] # None)

C9_Witness ==
    \E t, u \in DOMAIN pc :
        /\ AwaitFailed(t) /\ call[t].op = "start" /\ Len(easee_log[t]) = 1
        /\ Done(u) /\ call[u].op = "set_dynamic_charger_circuit_current"
        /\ easee_log[u] = <<>> /\ circuit_log[u] = <<>>

\* the operations that decode the body of the answer; the others return the
\* answer as it is
DecodingOps ==
    {"get_consumption_between_dates", "get_sessions_between_dates",
     "get_config", "get_state", "get_basic_charge_plan"}

\* the paths of the wire contract for the charger with this id
WirePaths(id) ==
    {"/api/chargers/" \o id \o rest :
        rest \in {"/config", "/state", "/settings", "/basic_charge_plan", "/access"}
                 \cup {"/commands/" \o cmd :
                        cmd \in {"start_charging", "pause_charging",
                                 "resume_charging", "stop_charging",
                                 "toggle_charging", "reboot", "update_firmware",
                                 "override_schedule"}}}
    \cup {"/api/sessions/charger/" \o id \o "/" \o what \o "/"
          \o isoformat(d1) \o "/" \o isoformat(d2) :
            what \in {"total", "sessions"}, d1 \in Days, d2 \in Days}

\* C10: however the calls interleave, on one instance or on two, the
\* attributes of every Charger stay as constructed, every request path is a
\* path of the Charger the call was made on, built from the id it was
\* constructed with, and a call's outcome is that of its own answer: the
\* answer carries the url of the call's own request.
C10_NoSharedState ==
    /\ chargers = Constructed
    /\ \A t \in DOMAIN pc :
        Called(t) =>
            /\ \A i \in 1..Len(easee_log[t]) :
                  easee_log[t][i].path \in WirePaths(Constructed[call[t].charger].id)
            /\ (AwaitSucceeded(t) /\ easee_log[t] # <<>>) =>
                  response[t].url = easee_log[t][1].path
            /\ (Done(t) /\ response[t] # None) =>
                  result[t] = AfterAwait(call[t], response[t])
            /\ (AwaitSucceeded(t) /\ easee_log[t] # <<>>
                /\ call[t].op \notin DecodingOps) =>
                  /\ result[t].kind = "return"
                  /\ result[t].value.url = easee_log[t][1].path

C10_Witness ==
    \E t, u \in DOMAIN pc :
        /\ t # u
        /\ AwaitSucceeded(t) /\ AwaitSucceeded(u)
        /\ call[t].op = "get_state" /\ call[u].op = "get_state"
        /\ call[t].charger # call[u].charger
        /\ response[t].body # response[u].body
        /\ result[t] # result[u]

----------------------------------------------------------------------------
(* Properties of get_state and get_config, under SpecState.                *)

\* get_state (get_config) answered with a payload and run to its end
StateCall(t, raw) ==
    AwaitSucceeded(t) /\ call[t].op = "get_state" /\ call[t].args.raw = raw
ConfigCall(t, raw) ==
    AwaitSucceeded(t) /\ call[t].op = "get_config" /\ call[t].args.raw = raw
Payload(t) == response[t].body.d

\* the labels of the operating modes
OpModeLabel(i) ==
    CASE i = 0 -> "OFFLINE" [] i = 1 -> "DISCONNECTED"
      [] i = 2 -> "AWAITING_START" [] i = 3 -> "CHARGING"
      [] i = 4 -> "COMPLETED" [] i = 5 -> "ERROR"
      [] i = 6 -> "READY_TO_CHARGE"

ListedOpMode(code) == code.t = "int" /\ code.i \in 0..6

\* C5: decoded, a chargerOpMode code in 0..6 comes out as exactly its label
\* (the record is built whenever the payload also carries reasonForNoCurrent,
\* and the one failure possible then is the missing reasonForNoCurrent); any
\* other code raises KeyError(code) and no ChargerState is produced.
C5_OpModeDecoding ==
    \A t \in DOMAIN pc :
        (StateCall(t, FALSE) /\ HasKey(Payload(t), "chargerOpMode")) =>
            LET code == Payload(t)["chargerOpMode"]
            IN  IF ListedOpMode(code)
                THEN IF HasKey(Payload(t), "reasonForNoCurrent")
                     THEN /\ result[t].kind = "return"
                          /\ result[t].value.cls = "ChargerState"
                          /\ result[t].value.d["chargerOpMode"]
                                = PyStr(OpModeLabel(code.i))
                     ELSE result[t] = Raise(KeyError(PyStr("reasonForNoCurrent")))
                ELSE result[t] = Raise(KeyError(code))

C5_Witness ==
    \E t \in DOMAIN pc :
        /\ StateCall(t, FALSE)
        /\ chargers[call[t].charger].id = "EH12345"
        /\ Payload(t) = [chargerOpMode |-> PyInt(3), reasonForNoCurrent |-> PyInt(0)]
        /\ result[t].kind = "return"
        /\ result[t].value.d["chargerOpMode"] = PyStr("CHARGING")
        /\ result[t].value.d["reasonForNoCurrent"]
                = PyStr("(0) No reason, charging or ready to charge")

\* the codes REASON_FOR_NO_CURRENT lists
ListedReasons == (0..6) \cup {9} \cup (50..55)

\* a payload decoded mode accepts as far as chargerOpMode goes
ValidOpMode(t) ==
    HasKey(Payload(t), "chargerOpMode") /\ ListedOpMode(Payload(t)["chargerOpMode"])

\* C6: decoded and with a listed chargerOpMode, every numeric
\* reasonForNoCurrent code yields a record, whose reasonForNoCurrent is
\* "(<code>) <label>": the table's label for a listed code, "Unknown" for
\* any other.
C6_ReasonDecoding ==
    \A t \in DOMAIN pc :
        (StateCall(t, FALSE) /\ ValidOpMode(t)
         /\ HasKey(Payload(t), "reasonForNoCurrent")
         /\ Payload(t)["reasonForNoCurrent"].t = "int") =>
            LET n == Payload(t)["reasonForNoCurrent"].i
                label == IF n \in ListedReasons
                         THEN REASON_FOR_NO_CURRENT[PyInt(n)] ELSE "Unknown"
            IN  /\ result[t].kind = "return"
                /\ result[t].value.d["reasonForNoCurrent"]
                        = PyStr("(" \o ToString(n) \o ") " \o label)
                /\ n \notin ListedReasons => ~HasKey(REASON_FOR_NO_CURRENT, PyInt(n))

C6_Witness ==
    \E t \in DOMAIN pc :
        /\ StateCall(t, FALSE) /\ ValidOpMode(t)
        /\ HasKey(Payload(t), "reasonForNoCurrent")
        /\ Payload(t)["reasonForNoCurrent"] = PyInt(7)
        /\ result[t].kind = "return"
        /\ result[t].value.d["reasonForNoCurrent"] = PyStr("(7) Unknown")

NullReason(t) ==
    HasKey(Payload(t), "reasonForNoCurrent") /\ Payload(t)["reasonForNoCurrent"] = None

\* C7 as stated: a null reasonForNoCurrent comes out as "No reason" decoded
\* and as "none" raw.
C7_NullReasonAsStated ==
    \A t \in DOMAIN pc : \A raw \in BOOLEAN :
        (StateCall(t, raw) /\ NullReason(t) /\ result[t].kind = "return") =>
            result[t].value.d["reasonForNoCurrent"]
                = PyStr(IF raw THEN "none" ELSE "No reason")

\* C7, amended: a null reasonForNoCurrent comes out as "(None) No reason"
\* decoded (the label "No reason" in the format of every other code, given a
\* listed chargerOpMode) and as "none" raw.
C7_NullReason ==
    \A t \in DOMAIN pc : \A raw \in BOOLEAN :
        (StateCall(t, raw) /\ NullReason(t) /\ (raw \/ ValidOpMode(t))) =>
            /\ result[t].kind = "return"
            /\ result[t].value.d["reasonForNoCurrent"]
                = PyStr(IF raw THEN "none" ELSE "(None) No reason")

C7_Witness ==
    \E t \in DOMAIN pc :
        /\ StateCall(t, FALSE) /\ NullReason(t)
        /\ result[t].kind = "return"
        /\ result[t].value.d["reasonForNoCurrent"] = PyStr("(None) No reason")

\* the record of raw mode: the payload, a null reasonForNoCurrent of a state
\* payload replaced by "none"
RawView(t) ==
    [k \in DOMAIN Payload(t) |->
        IF call[t].op = "get_state" /\ k = "reasonForNoCurrent"
           /\ Payload(t)[k] = None
        THEN PyStr("none") ELSE Payload(t)[k]]

\* C8 as stated: raw, the construction succeeds on every payload and the
\* record is the payload but for a null reasonForNoCurrent.
C8_RawAsStated ==
    \A t \in DOMAIN pc :
        (StateCall(t, TRUE) \/ ConfigCall(t, TRUE)) =>
            /\ result[t].kind = "return"
            /\ result[t].value.d = RawView(t)

\* C8, amended: raw, ChargerConfig succeeds on every payload and ChargerState
\* on every payload that carries reasonForNoCurrent, whatever the codes; the
\* record has the payload's keys and values, but for a null
\* reasonForNoCurrent, which becomes "none".  A state payload without
\* reasonForNoCurrent raises KeyError.
C8_Raw ==
    \A t \in DOMAIN pc :
        (StateCall(t, TRUE) \/ ConfigCall(t, TRUE)) =>
            IF call[t].op = "get_config" \/ HasKey(Payload(t), "reasonForNoCurrent")
            THEN /\ result[t].kind = "return"
                 /\ DOMAIN result[t].value.d = DOMAIN Payload(t)
                 /\ result[t].value.d = RawView(t)
            ELSE result[t] = Raise(KeyError(PyStr("reasonForNoCurrent")))

C8_Witness ==
    \E t \in DOMAIN pc :
        /\ StateCall(t, TRUE)
        /\ Payload(t) = [chargerOpMode |-> PyInt(7), reasonForNoCurrent |-> None,
                         cableLocked |-> PyBool(TRUE)]
        /\ result[t] = Return(PyDict("ChargerState",
                [chargerOpMode |-> PyInt(7), reasonForNoCurrent |-> PyStr("none"),
                 cableLocked |-> PyBool(TRUE)]))

----------------------------------------------------------------------------
(* Properties of get_sessions_between_dates, under SpecSessions.           *)

SessionsCall(t) == AwaitSucceeded(t) /\ call[t].op = "get_sessions_between_dates"
Listing(t) == response[t].body.l

Orderings(n) ==
    {p \in [1..n -> 1..n] : \A i, j \in 1..n : p[i] = p[j] => i = j}

\* sorted is the sessions of listing, each once, as ChargerSession records,
\* newest carConnected first, those of equal carConnected in listing's order
SortedSessions(listing, sorted) ==
    /\ Len(sorted) = Len(listing)
    /\ \E p \in Orderings(Len(listing)) :
          /\ \A i \in 1..Len(listing) :
                sorted[i] = ChargerSession(listing[p[i]]).value
          /\ \A i, j \in 1..Len(listing) :
                i < j =>
                    /\ sorted[i].d["carConnected"].i >= sorted[j].d["carConnected"].i
                    /\ sorted[i].d["carConnected"] = sorted[j].d["carConnected"]
                            => p[i] < p[j]

\* every session's kiloWattHours converts to a float
Convertible(listing) ==
    \A i \in 1..Len(listing) :
        float(Get(listing[i], "kiloWattHours", None)).kind = "return"

\* the carConnected values can be ordered: all timestamps, or fewer than two
Comparable(listing) ==
    \/ Len(listing) < 2
    \/ \A i \in 1..Len(listing) : Get(listing[i], "carConnected", None).t = "int"

\* C4 as stated: whatever list the server answers with, the call returns its
\* sessions sorted by carConnected descending, stably.
C4_SortedAsStated ==
    \A t \in DOMAIN pc :
        SessionsCall(t) =>
            /\ result[t].kind = "return"
            /\ SortedSessions(Listing(t), result[t].value.l)

\* C4, amended: for every list whose sessions all carry a kiloWattHours that
\* converts to a float and whose carConnected values can be ordered, the
\* call returns the sessions, each once, by carConnected descending, those
\* of equal carConnected in their input order; for any other list it raises
\* and returns nothing.
C4_Sorted ==
    \A t \in DOMAIN pc :
        SessionsCall(t) =>
            IF Convertible(Listing(t)) /\ Comparable(Listing(t))
            THEN /\ result[t].kind = "return"
                 /\ SortedSessions(Listing(t), result[t].value.l)
            ELSE /\ result[t].kind = "raise"
                 /\ result[t].exc \in {TypeError, ValueError}

C4_Witness ==
    \E t \in DOMAIN pc :
        /\ SessionsCall(t)
        /\ Len(Listing(t)) = 3
        /\ Listing(t)[1]["carConnected"] = PyInt(1)
        /\ Listing(t)[2]["carConnected"] = PyInt(2)
        /\ Listing(t)[3]["carConnected"] = PyInt(2)
        /\ Listing(t)[2]["carDisconnected"] # Listing(t)[3]["carDisconnected"]
        /\ result[t].kind = "return"
        /\ result[t].value.l =
              << ChargerSession(Listing(t)[2]).value,
                 ChargerSession(Listing(t)[3]).value,
                 ChargerSession(Listing(t)[1]).value >>

====
